---- MODULE Spec2Model ----
(***************************************************************************)
(* A model of scintill_ai: the S4 preprocessing pipeline (preprocess.py),  *)
(* the console progress bar (utils.py) and the loaders of io.py.           *)
(*                                                                         *)
(* Numbers.  S4 values and percentages are fixed-point integers in         *)
(* thousandths (0.4 is 400), which is the resolution np.round(., 3) keeps. *)
(* A table cell that may be missing is Num(v) or NaN.                      *)
(***************************************************************************)
EXTENDS Integers, Sequences, FiniteSets, TLC

NaN == << >>
Inf == <<"inf">>
Num(v) == <<v>>
IsNum(c) == c # NaN /\ c # Inf

\* ---------------------------------------------------------------- bounds
MaxRows == 2
MaxS4 == 5
MaxDays == 3
MaxLines == 3
MaxYear == 4

\* ------------------------------------------------- program constants
PB_SIZE == 50
ELEVATION_THRESHOLD == 60
LW_S4_THRESHOLD == 400
UP_S4_THRESHOLD == 700

\* ------------------------------------------------------------ arithmetic
RECURSIVE SqrtSearch(_, _, _)
SqrtSearch(n, lo, hi) ==
    IF lo >= hi THEN lo
    ELSE LET mid == (lo + hi + 1) \div 2
         IN  IF mid * mid <= n THEN SqrtSearch(n, mid, hi)
                               ELSE SqrtSearch(n, lo, mid - 1)

\* floor of the square root of n >= 0
FloorSqrt(n) == SqrtSearch(n, 0, 4096)

\* np.round(sqrt(n / 10^6), 3) in thousandths: the integer nearest to sqrt(n)
\* (sqrt of an integer is never k + 1/2, so the tie rule does not matter)
RoundSqrt(n) ==
    LET r == FloorSqrt(n)
    IN  IF n <= r * r + r THEN r ELSE r + 1

\* np.round(m / n, 3) in thousandths for integers m >= 0, n > 0,
\* round-half-to-even as numpy rounds
RoundHalfEven(m, n) ==
    LET q == (1000 * m) \div n
        rem == (1000 * m) % n
    IN  IF 2 * rem < n THEN q
        ELSE IF 2 * rem > n THEN q + 1
        ELSE IF q % 2 = 0 THEN q ELSE q + 1

\* pandas Series.div followed by np.round(., 3): k/0 is inf, 0/0 is NaN
DivRound3(m, n) ==
    IF n = 0 THEN (IF m = 0 THEN NaN ELSE Inf)
    ELSE Num(RoundHalfEven(m, n))

\* Series.ge(threshold): a comparison with a missing value is False
Ge(c, threshold) == c # NaN /\ c[1] >= threshold

\* ------------------------------------------------- preprocess.py, pure
\* denoise_S4 with np.sqrt in place of np.emath.sqrt: a negative radicand
\* has no real root and comes out missing
denoise_S4_real_sqrt(s4, s4_corr) ==
    IF s4 = NaN \/ s4_corr = NaN THEN NaN
    ELSE LET rad == s4[1] * s4[1] - s4_corr[1] * s4_corr[1]
         IN  IF rad < 0 THEN NaN ELSE Num(RoundSqrt(rad))

\* denoise_S4, one element: np.emath.sqrt turns a negative radicand into a
\* complex root, whose real part is 0; NaN propagates
denoise_S4(s4, s4_corr) ==
    IF s4 = NaN \/ s4_corr = NaN THEN NaN
    ELSE LET rad == s4[1] * s4[1] - s4_corr[1] * s4_corr[1]
         IN  IF rad < 0 THEN Num(0) ELSE Num(RoundSqrt(rad))

\* A table (DataFrame) is its column names and its rows, each row a record
Frame(columns, rows) == [columns |-> columns, rows |-> rows]

AddCell(r, name, v) == (name :> v) @@ r

\* df[name] = values: a new column at the end, one cell per row
AddColumn(f, name, values) ==
    Frame(Append(f.columns, name),
          [i \in 1..Len(f.rows) |-> AddCell(f.rows[i], name, values[i])])

\* line 62: df["s4_denoised"] = denoise_S4(df["s4"], df["s4_correction"])
WithDenoised(f) ==
    AddColumn(f, "s4_denoised",
              [i \in 1..Len(f.rows) |->
                  denoise_S4(f.rows[i].s4, f.rows[i].s4_correction)])

\* the comparison with gt in place of ge
IsHighElevGt(r, elevation_threshold) ==
    r.elev # NaN /\ r.elev[1] > elevation_threshold

\* lines 136-140: the is_high_elev flag of one row
IsHighElev(r, elevation_threshold) == Ge(r.elev, elevation_threshold)

RECURSIVE SelectRows(_, _)
SelectRows(t, keep) ==
    IF t = << >> THEN << >>
    ELSE (IF keep[1] THEN <<Head(t)>> ELSE << >>)
         \o SelectRows(Tail(t), Tail(keep))

\* filter_higher_elevs: copy, flag every row, keep the flagged rows in order,
\* drop the flag column
filter_higher_elevs(f, elevation_threshold) ==
    Frame(f.columns,
          SelectRows(f.rows,
                     [i \in 1..Len(f.rows) |->
                         IsHighElev(f.rows[i], elevation_threshold)]))

\* the comparison with gt in place of ge
IsMildGt(r, lower_S4_threshold) ==
    r.s4_denoised # NaN /\ r.s4_denoised[1] > lower_S4_threshold

\* lines 66-70: s4_denoised.ge(lower_S4_threshold)
IsMild(r, lower_S4_threshold) == Ge(r.s4_denoised, lower_S4_threshold)

\* lines 72-76: s4_denoised.ge(higher_S4_threshold)
IsStrong(r, higher_S4_threshold) == Ge(r.s4_denoised, higher_S4_threshold)

WithMild(f, lo) ==
    AddColumn(f, "is_mild_scint",
              [i \in 1..Len(f.rows) |-> IsMild(f.rows[i], lo)])

WithStrong(f, hi) ==
    AddColumn(f, "is_strong_scint",
              [i \in 1..Len(f.rows) |-> IsStrong(f.rows[i], hi)])

\* ------------------------------------------------------ groupby / agg
RECURSIVE SortedSeq(_)
SortedSeq(S) ==
    IF S = {} THEN << >>
    ELSE LET m == CHOOSE x \in S : \A y \in S : x <= y
         IN  <<m>> \o SortedSeq(S \ {m})

RECURSIVE CountIf(_, _)
CountIf(t, name) ==
    IF t = << >> THEN 0
    ELSE (IF Head(t)[name] THEN 1 ELSE 0) + CountIf(Tail(t), name)

RECURSIVE SumNum(_)
SumNum(cells) ==
    IF cells = << >> THEN 0
    ELSE (IF Head(cells) = NaN THEN 0 ELSE Head(cells)[1]) + SumNum(Tail(cells))

Column(t, name) == [i \in 1..Len(t) |-> t[i][name]]

Values(cells) == {cells[i][1] : i \in {j \in 1..Len(cells) : cells[j] # NaN}}

\* "nunique": the number of distinct non-missing values
NUnique(cells) == Cardinality(Values(cells))

\* "max": over the non-missing values, missing when there is none
MaxCell(cells) ==
    IF Values(cells) = {} THEN NaN
    ELSE Num(CHOOSE x \in Values(cells) : \A y \in Values(cells) : y <= x)

\* "mean": over the non-missing values, kept exact as sum / count
MeanCell(cells) ==
    LET n == Cardinality({j \in 1..Len(cells) : cells[j] # NaN})
    IN  IF n = 0 THEN NaN ELSE <<SumNum(cells), n>>

\* the keys of a groupby that keeps unobserved categories (observed=False on
\* a categorical time_utc): every epoch, with or without rows
GroupKeysUnobserved(t) == {1, 2} \cup {t[i].time_utc : i \in 1..Len(t)}

\* the keys of groupby(["time_utc"]): the distinct time_utc of the rows
GroupKeys(t) == {t[i].time_utc : i \in 1..Len(t)}

GroupRows(t, key) == SelectSeq(t, LAMBDA r : r.time_utc = key)

\* lines 82-86: the named aggregations of one group
AggRow(key, g) ==
    [time_utc |-> key,
     n_sat |-> NUnique(Column(g, "svid")),
     n_sat_mild_scint |-> CountIf(g, "is_mild_scint"),
     n_sat_strong_scint |-> CountIf(g, "is_strong_scint"),
     s4_max |-> MaxCell(Column(g, "s4_denoised")),
     s4_mean |-> MeanCell(Column(g, "s4_denoised"))]

\* an aggregation that never groups: one aggregate row per observation
GroupByAggPerRow(t) ==
    [k \in 1..Len(t) |-> AggRow(t[k].time_utc, <<t[k]>>)]

\* lines 78-87: one row per group, groups in ascending key order
GroupByAgg(t) ==
    LET keys == SortedSeq(GroupKeys(t))
    IN  [k \in 1..Len(keys) |-> AggRow(keys[k], GroupRows(t, keys[k]))]

\* lines 89-91
WithPercMild(agg) ==
    [k \in 1..Len(agg) |->
        AddCell(agg[k], "perc_mild_scint",
                DivRound3(agg[k].n_sat_mild_scint, agg[k].n_sat))]

\* lines 92-94
WithPercStrong(agg) ==
    [k \in 1..Len(agg) |->
        AddCell(agg[k], "perc_strong_scint",
                DivRound3(agg[k].n_sat_strong_scint, agg[k].n_sat))]

\* preprocess_S4_data as a whole: the aggregate rows it returns
preprocess_S4_data(f, elevation_threshold, lo, hi) ==
    WithPercStrong(WithPercMild(GroupByAgg(
        WithStrong(WithMild(
            filter_higher_elevs(WithDenoised(f), elevation_threshold), lo), hi).rows)))

\* ---------------------------------------------------------------- inputs
\* the columns the pipeline reads
ObservationFields == <<"time_utc", "svid", "elev", "s4", "s4_correction">>

\* field lists a caller asks for: the observation columns, alone or with more
FieldLists == {ObservationFields, Append(ObservationFields, "azim")}

Obs(t, sv, el, s, c) ==
    [time_utc |-> t, svid |-> sv, elev |-> el, s4 |-> s, s4_correction |-> c]

Times == {1, 2}
Svids == {Num(1), Num(2), NaN}

\* (s4, s4_correction) pairs whose denoised values are 0, 0.4 and 0.742:
\* below both default thresholds, on the lower one, above the higher one
S4Pairs == {<<Num(300), Num(500)>>, <<Num(500), Num(300)>>, <<Num(800), Num(300)>>}

\* observations at the elevation threshold, and observations just below it
\* or with no elevation at all
HighObs == {Obs(t, sv, Num(ELEVATION_THRESHOLD), p[1], p[2]) :
               t \in Times, sv \in Svids, p \in S4Pairs}
LowObs == {Obs(t, Num(1), el, Num(800), Num(300)) :
               t \in Times, el \in {Num(ELEVATION_THRESHOLD - 1), NaN}}
ObsRows == HighObs \cup LowObs

SeqsUpTo(S, n) == UNION {[1..k -> S] : k \in 0..n}

Thresholds == {LW_S4_THRESHOLD, UP_S4_THRESHOLD}

VARIABLES
    \* preprocess_S4_data: its arguments, locals and position
    df, elevation_threshold, lower_S4_threshold, higher_S4_threshold,
    df_high_elev, df_agg, pc,
    \* denoise_S4 on one pair: arguments, result, position
    s4_series, s4_corr_series, s4_denoised, dpc,
    \* get_aggregated_gnss_data: arguments, locals, position; the queries the
    \* ISMR service has received and how it answered
    start, end, fields, date_range, dt_, df_raw, dfs, gnss_result, gpc, service_log,
    \* progressbar: count, enumerate index, what it wrote, what it yielded
    count, pb_i, shown, yielded,
    \* read_iaga_file / read_omniweb_file: the file, the reader, the outcome
    file_lines, reader, file_result, fpc,
    \* get_solar_wind_data: the directory, its listing, locals, position
    dir_files, listing, years, yr_, data, sw_result, swpc

varsPre == <<df, elevation_threshold, lower_S4_threshold, higher_S4_threshold,
             df_high_elev, df_agg, pc>>
varsDen == <<s4_series, s4_corr_series, s4_denoised, dpc>>
varsAgg == <<start, end, fields, date_range, dt_, df_raw, dfs, gnss_result, gpc,
             service_log, count, pb_i, shown, yielded>>
varsFile == <<file_lines, reader, file_result, fpc>>
varsSw == <<dir_files, listing, years, yr_, data, sw_result, swpc>>

vars == <<varsPre, varsDen, varsAgg, varsFile, varsSw>>

None == Frame(<< >>, << >>)

\* the parts of the state a run of one function does not touch
IdlePre ==
    /\ df = None /\ elevation_threshold = ELEVATION_THRESHOLD
    /\ lower_S4_threshold = LW_S4_THRESHOLD
    /\ higher_S4_threshold = UP_S4_THRESHOLD
    /\ df_high_elev = None /\ df_agg = << >> /\ pc = "idle"
IdleDen ==
    /\ s4_series = NaN /\ s4_corr_series = NaN /\ s4_denoised = NaN /\ dpc = "idle"
IdleAgg ==
    /\ start = 1 /\ end = 1 /\ fields = ObservationFields /\ date_range = << >>
    /\ dt_ = 0 /\ df_raw = None /\ dfs = << >> /\ gnss_result = << >>
    /\ gpc = "idle" /\ service_log = << >>
    /\ count = 0 /\ pb_i = 0 /\ shown = << >> /\ yielded = << >>
IdleFile ==
    /\ file_lines = << >> /\ reader = "none"
    /\ file_result = [status |-> "none", rows |-> << >>] /\ fpc = "idle"
IdleSw ==
    /\ dir_files = << >> /\ listing = << >> /\ years = << >> /\ yr_ = 0
    /\ data = << >> /\ sw_result = << >> /\ swpc = "idle"

\* --------------------------------------- preprocess_S4_data, line by line
InitPre ==
    /\ df \in {Frame(ObservationFields, t) : t \in SeqsUpTo(ObsRows, MaxRows)}
              \cup {Frame(c, << >>) : c \in FieldLists}
    /\ elevation_threshold = ELEVATION_THRESHOLD
    /\ lower_S4_threshold \in Thresholds
    /\ higher_S4_threshold \in Thresholds
    /\ df_high_elev = None
    /\ df_agg = << >>
    /\ pc = "l62"
    /\ IdleDen /\ IdleAgg /\ IdleFile /\ IdleSw

\* line 62 (the caller's table gets the new column)
Denoise ==
    /\ pc = "l62"
    /\ df' = WithDenoised(df)
    /\ pc' = "l64"
    /\ UNCHANGED <<varsDen, varsAgg, varsFile, varsSw,
                   elevation_threshold, lower_S4_threshold, higher_S4_threshold,
                   df_high_elev, df_agg>>

\* line 64
Filter ==
    /\ pc = "l64"
    /\ df_high_elev' = filter_higher_elevs(df, elevation_threshold)
    /\ pc' = "l66"
    /\ UNCHANGED <<varsDen, varsAgg, varsFile, varsSw,
                   df, elevation_threshold, lower_S4_threshold,
                   higher_S4_threshold, df_agg>>

\* lines 66-70
ClassifyMild ==
    /\ pc = "l66"
    /\ df_high_elev' = WithMild(df_high_elev, lower_S4_threshold)
    /\ pc' = "l72"
    /\ UNCHANGED <<varsDen, varsAgg, varsFile, varsSw,
                   df, elevation_threshold, lower_S4_threshold,
                   higher_S4_threshold, df_agg>>

\* lines 72-76
ClassifyStrong ==
    /\ pc = "l72"
    /\ df_high_elev' = WithStrong(df_high_elev, higher_S4_threshold)
    /\ pc' = "l78"
    /\ UNCHANGED <<varsDen, varsAgg, varsFile, varsSw,
                   df, elevation_threshold, lower_S4_threshold,
                   higher_S4_threshold, df_agg>>

\* lines 78-87
Aggregate ==
    /\ pc = "l78"
    /\ df_agg' = GroupByAgg(df_high_elev.rows)
    /\ pc' = "l89"
    /\ UNCHANGED <<varsDen, varsAgg, varsFile, varsSw,
                   df, elevation_threshold, lower_S4_threshold,
                   higher_S4_threshold, df_high_elev>>

\* lines 89-91
PercMild ==
    /\ pc = "l89"
    /\ df_agg' = WithPercMild(df_agg)
    /\ pc' = "l92"
    /\ UNCHANGED <<varsDen, varsAgg, varsFile, varsSw,
                   df, elevation_threshold, lower_S4_threshold,
                   higher_S4_threshold, df_high_elev>>

\* lines 92-96
PercStrong ==
    /\ pc = "l92"
    /\ df_agg' = WithPercStrong(df_agg)
    /\ pc' = "returned"
    /\ UNCHANGED <<varsDen, varsAgg, varsFile, varsSw,
                   df, elevation_threshold, lower_S4_threshold,
                   higher_S4_threshold, df_high_elev>>

NextPre ==
    \/ Denoise
    \/ Filter
    \/ ClassifyMild
    \/ ClassifyStrong
    \/ Aggregate
    \/ PercMild
    \/ PercStrong

SpecPre == InitPre /\ [][NextPre]_vars

\* ------------------------------------------------ claims: preprocessing
Strip(r) == [n \in {"time_utc", "svid", "elev", "s4", "s4_correction"} |-> r[n]]
StripAll(t) == [i \in 1..Len(t) |-> Strip(t[i])]

\* the rows of a table whose elevation is present and at or above the threshold
AtOrAbove(t, threshold) ==
    SelectSeq(t, LAMBDA r : r.elev # NaN /\ r.elev[1] >= threshold)

AggTimes == {df_agg[k].time_utc : k \in 1..Len(df_agg)}

\* C2 (as claimed): in every returned row both percentages are the rounded
\* ratios n_sat_*_scint / n_sat and lie in [0, 1]
C2_PercentagesAreRatiosWithinUnitInterval ==
    pc = "returned" =>
        \A k \in 1..Len(df_agg) :
            LET r == df_agg[k]
            IN  /\ r.perc_mild_scint = DivRound3(r.n_sat_mild_scint, r.n_sat)
                /\ r.perc_strong_scint = DivRound3(r.n_sat_strong_scint, r.n_sat)
                /\ IsNum(r.perc_mild_scint) /\ r.perc_mild_scint[1] \in 0..1000
                /\ IsNum(r.perc_strong_scint) /\ r.perc_strong_scint[1] \in 0..1000

\* C3: with lower <= higher, a strong observation is also mild, and every
\* aggregate row has n_sat_mild_scint >= n_sat_strong_scint
C3_StrongImpliesMild ==
    lower_S4_threshold <= higher_S4_threshold =>
        /\ pc \in {"l78", "l89", "l92", "returned"} =>
              \A i \in 1..Len(df_high_elev.rows) :
                  df_high_elev.rows[i].is_strong_scint
                      => df_high_elev.rows[i].is_mild_scint
        /\ pc \in {"l89", "l92", "returned"} =>
              \A k \in 1..Len(df_agg) :
                  df_agg[k].n_sat_mild_scint >= df_agg[k].n_sat_strong_scint

C3_Witness ==
    /\ pc = "returned"
    /\ lower_S4_threshold < higher_S4_threshold
    /\ \E k \in 1..Len(df_agg) :
          /\ df_agg[k].n_sat_strong_scint >= 1
          /\ df_agg[k].n_sat_mild_scint > df_agg[k].n_sat_strong_scint

\* C4: the filter keeps exactly the rows with elev >= threshold (boundary
\* included), in their order; a row below the threshold or without an
\* elevation is dropped and the aggregates are those of the kept rows alone
C4_FilterKeepsExactlyHighElevations ==
    /\ pc \notin {"l62", "l64"} =>
          StripAll(df_high_elev.rows)
              = StripAll(AtOrAbove(df.rows, elevation_threshold))
    /\ pc = "returned" =>
          df_agg = preprocess_S4_data(
                       Frame(ObservationFields,
                             StripAll(AtOrAbove(df.rows, elevation_threshold))),
                       elevation_threshold, lower_S4_threshold, higher_S4_threshold)

C4_Witness ==
    /\ pc = "returned"
    /\ \E i, j \in 1..Len(df.rows) :
          /\ df.rows[i].elev = Num(elevation_threshold)
          /\ df.rows[j].elev \in {NaN, Num(elevation_threshold - 1)}
          /\ df.rows[i].time_utc = df.rows[j].time_utc
    /\ Len(df_high_elev.rows) = 1

\* C5: the result has one row per distinct time_utc of the observations that
\* pass the elevation filter: none twice, none missing, none more
C5_OneRowPerFilteredTimestamp ==
    pc \in {"l89", "l92", "returned"} =>
        /\ \A i, j \in 1..Len(df_agg) :
              i # j => df_agg[i].time_utc # df_agg[j].time_utc
        /\ AggTimes = {r.time_utc : r \in
                          {df.rows[i] : i \in
                              {j \in 1..Len(df.rows) :
                                  /\ df.rows[j].elev # NaN
                                  /\ df.rows[j].elev[1] >= elevation_threshold}}}

C5_Witness ==
    /\ pc = "returned"
    /\ Len(df_agg) = 1
    /\ \E i \in 1..Len(df.rows) : df.rows[i].time_utc \notin AggTimes

\* C7: a table of observation columns with zero rows goes through every line
\* of preprocess_S4_data and yields zero aggregate rows
C7_EmptyTableYieldsNoRows ==
    df.rows = << >> =>
        /\ pc # "returned" => ENABLED NextPre
        /\ df_high_elev.rows = << >>
        /\ df_agg = << >>

C7_Witness ==
    /\ pc = "returned"
    /\ df.rows = << >>
    /\ \E i \in 1..Len(df.columns) : df.columns[i] = "azim"

\* ------------------------------------------------- denoise_S4 on one pair
\* S4 values from -MaxS4/10 to MaxS4/10 in steps of 0.1, and a missing one
S4Grid == {Num(100 * k) : k \in (0 - MaxS4)..MaxS4} \cup {NaN}

InitDen ==
    /\ s4_series \in S4Grid
    /\ s4_corr_series \in S4Grid
    /\ s4_denoised = NaN
    /\ dpc = "l114"
    /\ IdlePre /\ IdleAgg /\ IdleFile /\ IdleSw

\* lines 114-117
DenoiseCall ==
    /\ dpc = "l114"
    /\ s4_denoised' = denoise_S4(s4_series, s4_corr_series)
    /\ dpc' = "returned"
    /\ UNCHANGED <<varsPre, varsAgg, varsFile, varsSw, s4_series, s4_corr_series>>

NextDen == DenoiseCall

SpecDen == InitDen /\ [][NextDen]_vars

Abs(x) == IF x < 0 THEN 0 - x ELSE x

\* r is the integer nearest to the square root of n >= 0
NearestToSqrt(r, n) ==
    /\ r >= 0
    /\ 4 * n < (2 * r + 1) * (2 * r + 1)
    /\ r > 0 => (2 * r - 1) * (2 * r - 1) < 4 * n

Radicand == s4_series[1] * s4_series[1] - s4_corr_series[1] * s4_corr_series[1]

\* C6 (as claimed): 0.0 for every pair with s4_correction > s4, and
\* round(sqrt(s4^2 - s4_correction^2), 3) for every other pair
C6_ZeroWheneverCorrectionExceedsS4 ==
    (dpc = "returned" /\ s4_series # NaN /\ s4_corr_series # NaN) =>
        IF s4_corr_series[1] > s4_series[1]
        THEN s4_denoised = Num(0)
        ELSE /\ Radicand >= 0
             /\ s4_denoised # NaN
             /\ NearestToSqrt(s4_denoised[1], Radicand)

\* C6 (amended): 0.0 for every pair with |s4_correction| > |s4|, which is
\* when the radicand is negative; round(sqrt(s4^2 - s4_correction^2), 3) for
\* every other pair of present values; missing when either value is missing
C6_ZeroWheneverRadicandNegative ==
    dpc = "returned" =>
        IF s4_series = NaN \/ s4_corr_series = NaN
        THEN s4_denoised = NaN
        ELSE IF Abs(s4_corr_series[1]) > Abs(s4_series[1])
        THEN Radicand < 0 /\ s4_denoised = Num(0)
        ELSE /\ Radicand >= 0
             /\ s4_denoised # NaN
             /\ NearestToSqrt(s4_denoised[1], Radicand)

C6_Witness ==
    /\ dpc = "returned"
    /\ s4_series = Num(100) /\ s4_corr_series = Num(500)
    /\ s4_denoised = Num(0)

\* ------------------------------------------------------------- utils.py
\* show(j): the filled length of the bar and the percentage, int() of the
\* quotients; called only with count > 0 (count = 0 divides by zero)
Show(j, n) == [x |-> (PB_SIZE * j) \div n, pct |-> (100 * j) \div n]

\* ---------------------------------------------- io.py: the GNSS loaders
\* pd.date_range(start, end): the days from start to end, none if start > end
DateRange(a, b) == [i \in 1..(b - a + 1) |-> a + i - 1]

\* what the ISMR service may hold for one day: nothing, one observation,
\* or observations of two satellites at two epochs of that day
DayTables(d) ==
    {<< >>,
     <<Obs(100 * d + 1, Num(1), Num(ELEVATION_THRESHOLD), Num(800), Num(300))>>,
     <<Obs(100 * d + 1, Num(1), Num(ELEVATION_THRESHOLD), Num(500), Num(300)),
       Obs(100 * d + 1, Num(2), Num(ELEVATION_THRESHOLD - 1), Num(800), Num(300)),
       Obs(100 * d + 2, Num(2), Num(ELEVATION_THRESHOLD), Num(300), Num(500))>>}

\* one answer of the service: the query raises, or a CSV of the day's rows
ServiceOutcomes(d) ==
    {[ok |-> FALSE, rows |-> << >>]} \cup {[ok |-> TRUE, rows |-> t] : t \in DayTables(d)}

\* the CSV has the requested columns; columns beyond the observation ones are
\* carried as one more cell per row
CsvFrame(fields_, rows) ==
    Frame(fields_,
          [i \in 1..Len(rows) |->
              [n \in {fields_[k] : k \in 1..Len(fields_)} |->
                  IF n \in DOMAIN rows[i] THEN rows[i][n] ELSE Num(0)]])

\* get_gnss_data without its try/except: a failing query raises to the caller
get_gnss_data_uncaught(fields_, outcome) ==
    IF outcome.ok
    THEN [raised |-> FALSE, df |-> CsvFrame(fields_, outcome.rows)]
    ELSE [raised |-> TRUE, df |-> None]

\* get_gnss_data, lines 293-298: the parsed CSV, or, on any exception, an
\* empty table whose columns are the requested fields
get_gnss_data(fields_, outcome) ==
    IF outcome.ok
    THEN [raised |-> FALSE, df |-> CsvFrame(fields_, outcome.rows)]
    ELSE [raised |-> FALSE, df |-> Frame(fields_, << >>)]

RECURSIVE Flatten(_)
\* pd.concat(dfs, ignore_index=True): the rows of the tables, in list order
Flatten(ts) == IF ts = << >> THEN << >> ELSE Head(ts) \o Flatten(Tail(ts))

GnssErrors == {"ZeroDivisionError", "QueryError", "ValueError"}

InitAgg ==
    /\ start \in 1..MaxDays
    /\ end \in 1..MaxDays
    /\ fields \in FieldLists
    /\ date_range = DateRange(start, end)
    /\ dt_ = 0 /\ df_raw = None /\ dfs = << >> /\ gnss_result = << >>
    /\ gpc = "l329" /\ service_log = << >>
    /\ count = 0 /\ pb_i = 0 /\ shown = << >> /\ yielded = << >>
    /\ IdlePre /\ IdleDen /\ IdleFile /\ IdleSw

\* io.py line 329 entering the loop; utils.py lines 6-18: count, show(0), and
\* the first item is yielded. With no item, show(0) divides by zero
PbStart ==
    /\ gpc = "l329"
    /\ count' = Len(date_range)
    /\ IF count' = 0
       THEN /\ gpc' = "ZeroDivisionError"
            /\ UNCHANGED <<shown, yielded, dt_>>
       ELSE /\ shown' = <<Show(0, count')>>
            /\ yielded' = <<date_range[1]>>
            /\ dt_' = date_range[1]
            /\ gpc' = "l333"
    /\ UNCHANGED <<varsPre, varsDen, varsFile, varsSw, start, end, fields,
                   date_range, df_raw, dfs, gnss_result, service_log, pb_i>>

\* io.py lines 330-333: the query for the day dt_, answered by the service
Query ==
    /\ gpc = "l333"
    /\ \E outcome \in ServiceOutcomes(dt_) :
          LET r == get_gnss_data(fields, outcome)
          IN  /\ service_log' = Append(service_log,
                                       [day |-> dt_, ok |-> outcome.ok,
                                        rows |-> outcome.rows])
              /\ IF r.raised
                 THEN gpc' = "QueryError" /\ UNCHANGED df_raw
                 ELSE gpc' = "l334" /\ df_raw' = r.df
    /\ UNCHANGED <<varsPre, varsDen, varsFile, varsSw, start, end, fields,
                   date_range, dt_, dfs, gnss_result, count, pb_i, shown, yielded>>

\* io.py lines 334-343: the day's aggregate is appended (the raw table gets
\* its s4_denoised column on the way)
PreprocessDay ==
    /\ gpc = "l334"
    /\ dfs' = Append(dfs, preprocess_S4_data(df_raw, ELEVATION_THRESHOLD,
                                             LW_S4_THRESHOLD, UP_S4_THRESHOLD))
    /\ df_raw' = WithDenoised(df_raw)
    /\ gpc' = "resume"
    /\ UNCHANGED <<varsPre, varsDen, varsFile, varsSw, start, end, fields,
                   date_range, dt_, gnss_result, service_log, count, pb_i,
                   shown, yielded>>

\* utils.py lines 17-21: show(i + 1), then the next item is yielded or the
\* generator ends
PbResume ==
    /\ gpc = "resume"
    /\ shown' = Append(shown, Show(pb_i + 1, count))
    /\ pb_i' = pb_i + 1
    /\ IF pb_i + 1 < count
       THEN /\ yielded' = Append(yielded, date_range[pb_i + 2])
            /\ dt_' = date_range[pb_i + 2]
            /\ gpc' = "l333"
       ELSE /\ gpc' = "l345"
            /\ UNCHANGED <<yielded, dt_>>
    /\ UNCHANGED <<varsPre, varsDen, varsFile, varsSw, start, end, fields,
                   date_range, df_raw, dfs, gnss_result, service_log, count>>

\* io.py line 345: pd.concat raises on an empty list
Concat ==
    /\ gpc = "l345"
    /\ IF dfs = << >>
       THEN gpc' = "ValueError" /\ UNCHANGED gnss_result
       ELSE gpc' = "returned" /\ gnss_result' = Flatten(dfs)
    /\ UNCHANGED <<varsPre, varsDen, varsFile, varsSw, start, end, fields,
                   date_range, dt_, df_raw, dfs, service_log, count, pb_i,
                   shown, yielded>>

NextAgg ==
    \/ PbStart
    \/ Query
    \/ PreprocessDay
    \/ PbResume
    \/ Concat

SpecAgg == InitAgg /\ [][NextAgg]_vars

\* ------------------------------------- claims: aggregation, progress bar
LogDays == [i \in 1..Len(service_log) |-> service_log[i].day]

IsPrefix(a, b) == Len(a) <= Len(b) /\ \A i \in 1..Len(a) : a[i] = b[i]

RECURSIVE RowsOfAnsweredDays(_)
\* the aggregate rows of the days the service answered, in the order asked
RowsOfAnsweredDays(log) ==
    IF log = << >> THEN << >>
    ELSE (IF Head(log).ok
          THEN preprocess_S4_data(CsvFrame(fields, Head(log).rows),
                                  ELEVATION_THRESHOLD, LW_S4_THRESHOLD,
                                  UP_S4_THRESHOLD)
          ELSE << >>)
         \o RowsOfAnsweredDays(Tail(log))

\* C1: over a range of one or more days, whichever days the query raises
\* for, every day of the range is queried once and in order, nothing is
\* raised, and the result is the answered days' aggregate rows in day order
C1_FailingDaysContributeNothing ==
    Len(date_range) >= 1 =>
        /\ gpc \notin GnssErrors
        /\ IsPrefix(LogDays, date_range)
        /\ gpc \in {"l345", "returned"} => LogDays = date_range
        /\ gpc = "returned" => gnss_result = RowsOfAnsweredDays(service_log)

C1_Witness ==
    /\ gpc = "returned"
    /\ Len(service_log) >= 2
    /\ ~service_log[1].ok
    /\ service_log[2].ok /\ service_log[2].rows # << >>
    /\ gnss_result # << >>

\* C9 (as claimed): for every length of the iterable, zero included, the
\* progress bar raises nothing, yields the items in order, each once, and
\* shows percentages within 0..100, the first 0 and the last 100
C9_ProgressbarYieldsAllAndTerminates ==
    /\ gpc # "ZeroDivisionError"
    /\ IsPrefix(yielded, date_range)
    /\ \A k \in 1..Len(shown) : shown[k].pct \in 0..100
    /\ gpc \in {"l345", "returned", "ValueError"} =>
          /\ yielded = date_range
          /\ shown[1].pct = 0
          /\ shown[Len(shown)].pct = 100

\* ------------------------------------------------- io.py: format readers
\* A file is its lines, each of one kind: "header" starts with the reader's
\* header prefix, "data" is a well-formed data row, "text" is any other
\* non-blank line, "blank" is empty or white space
LineKinds == {"header", "data", "text", "blank"}

Positions(lines, kind) == {i \in 1..Len(lines) : lines[i] = kind}

Min(S) == CHOOSE x \in S : \A y \in S : x <= y

FileResult(status, rows) == [status |-> status, rows |-> rows]

\* lines 33-37: the 0-based index of the first line starting with "DATE";
\* it stays 0 when there is none
StartIdx(lines) ==
    IF Positions(lines, "header") = {} THEN 0
    ELSE Min(Positions(lines, "header")) - 1

\* lines 40-47: read_csv skips start_idx + 1 lines and parses every other
\* non-blank line
IagaParsed(lines) ==
    {i \in (StartIdx(lines) + 2)..Len(lines) : lines[i] # "blank"}

\* read_iaga_file, lines 30-51, on a file that leaves read_csv a line to
\* parse. A "text" or second "header" line among the parsed ones has no date
\* and time and raises at line 49; otherwise the parsed lines are the rows,
\* given here as their positions in the file.
read_iaga_file(lines) ==
    IF \E i \in IagaParsed(lines) : lines[i] # "data"
    THEN FileResult("ValueError", << >>)
    ELSE FileResult("ok", SortedSeq(IagaParsed(lines)))

\* read_omniweb_file, lines 67-126. Without a line starting with
\* "YYYY DOY HR MN" an empty table is returned (lines 97-100). Otherwise the
\* lines after the first header that are not blank and start with four digits
\* are the rows; with no such line the table has no "year" column and line
\* 112 raises. Stripping the content and the tags changes no line's kind.
read_omniweb_file(lines) ==
    IF Positions(lines, "header") = {} THEN FileResult("ok", << >>)
    ELSE LET h == Min(Positions(lines, "header"))
             rows == {i \in (h + 1)..Len(lines) : lines[i] = "data"}
         IN  IF rows = {} THEN FileResult("KeyError", << >>)
             ELSE FileResult("ok", SortedSeq(rows))

\* every file of at most MaxLines lines for the OMNIWeb reader; for the IAGA
\* reader those with a line left to parse (what read_csv does with none
\* depends on its version and is left out)
InitFile ==
    /\ file_lines \in SeqsUpTo(LineKinds, MaxLines)
    /\ reader \in {"iaga", "omniweb"}
    /\ reader = "iaga" => IagaParsed(file_lines) # {}
    /\ file_result = FileResult("none", << >>)
    /\ fpc = "call"
    /\ IdlePre /\ IdleDen /\ IdleAgg /\ IdleSw

ReadIaga ==
    /\ fpc = "call" /\ reader = "iaga"
    /\ file_result' = read_iaga_file(file_lines)
    /\ fpc' = "done"
    /\ UNCHANGED <<varsPre, varsDen, varsAgg, varsSw, file_lines, reader>>

ReadOmniweb ==
    /\ fpc = "call" /\ reader = "omniweb"
    /\ file_result' = read_omniweb_file(file_lines)
    /\ fpc' = "done"
    /\ UNCHANGED <<varsPre, varsDen, varsAgg, varsSw, file_lines, reader>>

NextFile ==
    \/ ReadIaga
    \/ ReadOmniweb

SpecFile == InitFile /\ [][NextFile]_vars

\* C8 (as claimed): a file with no header line is never parsed into rows:
\* the OMNIWeb reader returns an empty table and the IAGA reader raises
C8_HeaderlessFileIsNeverParsed ==
    (fpc = "done" /\ Positions(file_lines, "header") = {}) =>
        /\ reader = "omniweb" => file_result = FileResult("ok", << >>)
        /\ reader = "iaga" => file_result.status # "ok"
        /\ file_result.rows = << >>

\* ------------------------------------------- io.py: get_solar_wind_data
Years == 1..MaxYear

\* a year file with a header and one data row, and one with no header
YearFiles == {<<"header", "data">>, <<"text", "data">>}

\* the sequences that list every element of S once
Perms(S) ==
    {p \in [1..Cardinality(S) -> S] : \A i, j \in 1..Cardinality(S) :
                                          i # j => p[i] # p[j]}

\* the table read from the file of year y: its rows, tagged with the year
YearTable(y, rows) == [i \in 1..Len(rows) |-> [year |-> y, line |-> rows[i]]]

InitSw ==
    /\ \E S \in (SUBSET Years) \ {{}} :
          /\ dir_files \in [S -> YearFiles]
          /\ listing \in Perms(S)
    /\ years = << >> /\ yr_ = 0 /\ data = << >> /\ sw_result = << >>
    /\ swpc = "l249"
    /\ IdlePre /\ IdleDen /\ IdleAgg /\ IdleFile

\* lines 247-252: the years from the first listed to the last listed
SwListDir ==
    /\ swpc = "l249"
    /\ years' = DateRange(listing[1], listing[Len(listing)])
    /\ IF years' = << >>
       THEN swpc' = "l260" /\ UNCHANGED yr_
       ELSE swpc' = "l253" /\ yr_' = years'[1]
    /\ UNCHANGED <<varsPre, varsDen, varsAgg, varsFile, dir_files, listing,
                   data, sw_result>>

\* the for loop moves on to the next year, or ends
SwAdvance ==
    IF yr_ = years[Len(years)]
    THEN swpc' = "l260" /\ UNCHANGED yr_
    ELSE swpc' = "l253" /\ yr_' = yr_ + 1

\* lines 253-256: no file for the year
SwSkipYear ==
    /\ swpc = "l253"
    /\ yr_ \notin DOMAIN dir_files
    /\ SwAdvance
    /\ UNCHANGED <<varsPre, varsDen, varsAgg, varsFile, dir_files, listing,
                   years, data, sw_result>>

\* lines 253-258: the year's file is read
SwReadYear ==
    /\ swpc = "l253"
    /\ yr_ \in DOMAIN dir_files
    /\ LET r == read_omniweb_file(dir_files[yr_])
       IN  IF r.status # "ok"
           THEN swpc' = r.status /\ UNCHANGED <<yr_, data>>
           ELSE /\ data' = (yr_ :> YearTable(yr_, r.rows)) @@ data
                /\ SwAdvance
    /\ UNCHANGED <<varsPre, varsDen, varsAgg, varsFile, dir_files, listing,
                   years, sw_result>>

\* line 260: data[yr_] for every year of the range, then pd.concat
SwConcat ==
    /\ swpc = "l260"
    /\ IF \E i \in 1..Len(years) : years[i] \notin DOMAIN data
       THEN swpc' = "KeyError" /\ UNCHANGED sw_result
       ELSE IF years = << >>
       THEN swpc' = "ValueError" /\ UNCHANGED sw_result
       ELSE /\ sw_result' = Flatten([i \in 1..Len(years) |-> data[years[i]]])
            /\ swpc' = "returned"
    /\ UNCHANGED <<varsPre, varsDen, varsAgg, varsFile, dir_files, listing,
                   years, yr_, data>>

NextSw ==
    \/ SwListDir
    \/ SwSkipYear
    \/ SwReadYear
    \/ SwConcat

SpecSw == InitSw /\ [][NextSw]_vars

PresentYears == SortedSeq(DOMAIN dir_files)

\* C10 (as claimed): for every non-empty set of year files and every order
\* of the listing, nothing is raised and the result is the tables of the
\* years that have a file, in ascending year order
C10_ConcatenatesPresentYearsAscending ==
    /\ swpc \notin {"KeyError", "ValueError"}
    /\ swpc = "returned" =>
          sw_result = Flatten([i \in 1..Len(PresentYears) |->
                                  YearTable(PresentYears[i],
                                            read_omniweb_file(
                                                dir_files[PresentYears[i]]).rows)])
====
